---- MODULE Spec2Model ----
(***************************************************************************)
(* Orientation Panel 2D (src/unnamed/part_000 = OrientationPanel2D.tsx,    *)
(* src/src/Settings.tsx): the quaternion extractor, the Euler converter,   *)
(* the panel state reducers and the React update/render cycle of the       *)
(* OrientationPanel2D component.                                           *)
(*                                                                         *)
(* JavaScript values are tagged records, so that values of different       *)
(* JavaScript types can be compared:                                       *)
(*   Num(n)     a number; in a message n counts halves (Num(1) is 0.5),    *)
(*              in an Orientation n counts thousandths of a degree         *)
(*   NaN        the number NaN                                             *)
(*   Str(s)     a string                                                   *)
(*   Bool(b)    a boolean                                                  *)
(*   Null, Undefined                                                       *)
(*   an object  a function from its property names to values              *)
(* A JavaScript Map, and an object used as a dictionary, is the sequence   *)
(* of its <<key, value>> entries in iteration (insertion) order.           *)
(***************************************************************************)
EXTENDS Integers, Sequences, FiniteSets, TLC

VARIABLES
    orientations,         \* useState: Map topic -> Orientation
    topics,               \* useState: the topic catalog last taken from the host
    messages,             \* useState: Map topic -> MessageEvent
    renderDone,           \* useState: the completion callback last taken
    state,                \* useState: PanelState
    pendingOrientations,  \* queued setOrientations updaters, oldest first
    pendingTopics,        \* queued setTopics value (the last one wins)
    pendingMessages,      \* queued setMessages value (the last one wins)
    pendingRenderDone,    \* queued setRenderDone value (the last one wins)
    pendingState,         \* queued setState updaters, oldest first
    indicators,           \* the indicator elements in the three dials
    owed,                 \* deliveries whose completion callback was not yet called
    subscription,         \* the topics of the last context.subscribe call, if any
    saved,                \* the argument of the last context.saveState call
    settingsEditor,       \* the nodes of the last context.updatePanelSettingsEditor call
    styleSheets,          \* style elements of the panel in document.head
    mounted,              \* the React root of the panel is mounted
    lastEvent             \* the host call or render pass that led to this state

vars == << orientations, topics, messages, renderDone, state, pendingOrientations,
           pendingTopics, pendingMessages, pendingRenderDone, pendingState,
           indicators, owed, subscription, saved, settingsEditor, styleSheets, mounted,
           lastEvent >>

\* ------------------------------------------------------------ JavaScript values

Num(n) == [num |-> n]
NaN == [nan |-> TRUE]
Str(s) == [str |-> s]
Null == [null |-> TRUE]
Undefined == [undef |-> TRUE]
Bool(b) == [bool |-> b]
Array(items) == [items |-> items]
Function(name) == [fn |-> name]

\* in the model's own state: no update is queued / the update queued
None == [none |-> TRUE]
Some(v) == [some |-> v]

Tags == {"num", "nan", "str", "null", "undef", "bool", "fn", "none", "some"}

\* typeof v === "object" && v !== null
IsObject(v) == DOMAIN v \cap Tags = {}

\* typeof v === "number"
IsNumber(v) == DOMAIN v = {"num"} \/ DOMAIN v = {"nan"}

\* v.f : property access on a value that is neither null nor undefined
Get(v, f) == IF IsObject(v) /\ f \in DOMAIN v THEN v[f] ELSE Undefined

\* v?.f
OptGet(v, f) == IF v = Null \/ v = Undefined THEN Undefined ELSE Get(v, f)

\* the truth value of v in a condition
Truthy(v) ==
    IF IsObject(v) THEN TRUE
    ELSE IF DOMAIN v = {"num"} THEN v.num # 0
    ELSE IF DOMAIN v = {"str"} THEN v.str # ""
    ELSE IF DOMAIN v = {"bool"} THEN v.bool
    ELSE FALSE

\* ------------------------------------------------------------ Map / dictionary

EmptyMap == << >>

MapKeys(m) == [i \in 1..Len(m) |-> m[i][1]]

MapHas(m, k) == \E i \in 1..Len(m) : m[i][1] = k

MapGet(m, k) == m[CHOOSE i \in 1..Len(m) : m[i][1] = k][2]

\* Map.prototype.set, and { ...obj, [k]: v }: an existing key keeps its place
MapSet(m, k, v) ==
    IF MapHas(m, k)
    THEN [i \in 1..Len(m) |-> IF m[i][1] = k THEN <<k, v>> ELSE m[i]]
    ELSE Append(m, <<k, v>>)

\* Map.prototype.delete
MapDelete(m, k) == SelectSeq(m, LAMBDA e : e[1] # k)

KeySet(m) == {m[i][1] : i \in 1..Len(m)}

\* ------------------------------------------------------------ Euler converter

\* Math.atan2(a, b) * (180 / Math.PI) in thousandths of a degree, for
\* a in -8..8 (row index a + 9 inside a row) and b in -6..2 (row b + 7)
AtanTable ==
  << << -126870, -130601, -135000, -140194, -146310, -153435, -161565, -170538, 180000, 170538, 161565, 153435, 146310, 140194, 135000, 130601, 126870 >>,
     << -122005, -125538, -129806, -135000, -141340, -149036, -158199, -168690, 180000, 168690, 158199, 149036, 141340, 135000, 129806, 125538, 122005 >>,
     << -116565, -119745, -123690, -128660, -135000, -143130, -153435, -165964, 180000, 165964, 153435, 143130, 135000, 128660, 123690, 119745, 116565 >>,
     << -110556, -113199, -116565, -120964, -126870, -135000, -146310, -161565, 180000, 161565, 146310, 135000, 126870, 120964, 116565, 113199, 110556 >>,
     << -104036, -105945, -108435, -111801, -116565, -123690, -135000, -153435, 180000, 153435, 135000, 123690, 116565, 111801, 108435, 105945, 104036 >>,
     << -97125, -98130, -99462, -101310, -104036, -108435, -116565, -135000, 180000, 135000, 116565, 108435, 104036, 101310, 99462, 98130, 97125 >>,
     << -90000, -90000, -90000, -90000, -90000, -90000, -90000, -90000, 0, 90000, 90000, 90000, 90000, 90000, 90000, 90000, 90000 >>,
     << -82875, -81870, -80538, -78690, -75964, -71565, -63435, -45000, 0, 45000, 63435, 71565, 75964, 78690, 80538, 81870, 82875 >>,
     << -75964, -74055, -71565, -68199, -63435, -56310, -45000, -26565, 0, 26565, 45000, 56310, 63435, 68199, 71565, 74055, 75964 >> >>

\* p * q is the negative zero: one factor is 0 and the other is negative
\* (the messages of the model hold no negative zero themselves)
NegZeroProduct(p, q) == (p = 0 /\ q < 0) \/ (q = 0 /\ p < 0)

\* Math.atan2(a, b) in degrees; negZero says that a is -0, for which
\* atan2(-0, b) is -180 degrees when b < 0 (and -0, that is 0, when b > 0)
Atan2Deg(a, negZero, b) ==
    IF a = 0 /\ negZero /\ b < 0 THEN -180000 ELSE AtanTable[b + 7][a + 9]

\* Math.asin(s / 2) in degrees for |s| < 2
AsinDeg(s) == CASE s = 0 -> 0 [] s = 1 -> 30000 [] s = -1 -> -30000

\* the number a quaternion field is read as in the arithmetic of quaternionToEuler
ToNumber(v) ==
    IF DOMAIN v = {"num"} THEN v
    ELSE IF v = Null THEN Num(0)
    ELSE NaN

ZeroEuler == [roll |-> Num(0), pitch |-> Num(0), yaw |-> Num(0)]

\* the conversion with the check of w or the clamp of the pitch left out
EulerVariant(quaternion, checked, clamped) ==
    IF ~Truthy(quaternion) \/ (checked /\ ~IsNumber(Get(quaternion, "w")))
    THEN ZeroEuler
    ELSE
      LET q0 == ToNumber(Get(quaternion, "w"))
          q1 == ToNumber(Get(quaternion, "x"))
          q2 == ToNumber(Get(quaternion, "y"))
          q3 == ToNumber(Get(quaternion, "z"))
      IN IF NaN \in {q0, q1, q2, q3}
         THEN [roll |-> NaN, pitch |-> NaN, yaw |-> NaN]
         ELSE
           LET sinr == q0.num * q1.num + q2.num * q3.num
               sinrNeg == NegZeroProduct(q0.num, q1.num) /\ NegZeroProduct(q2.num, q3.num)
               cosr == 2 - q1.num * q1.num - q2.num * q2.num
               sinp == q0.num * q2.num - q3.num * q1.num
               siny == q0.num * q3.num + q1.num * q2.num
               sinyNeg == NegZeroProduct(q0.num, q3.num) /\ NegZeroProduct(q1.num, q2.num)
               cosy == 2 - q2.num * q2.num - q3.num * q3.num
               \* Math.asin is NaN outside [-1, 1]
               pitch == IF sinp = 2 THEN Num(90000)
                        ELSE IF sinp = -2 THEN Num(-90000)
                        ELSE IF sinp > 2 \/ sinp < -2
                        THEN (IF clamped THEN Num(IF sinp > 0 THEN 90000 ELSE -90000)
                              ELSE NaN)
                        ELSE Num(AsinDeg(sinp))
           IN [roll  |-> Num(Atan2Deg(sinr, sinrNeg, cosr)),
               pitch |-> pitch,
               yaw   |-> Num(Atan2Deg(siny, sinyNeg, cosy))]

\* faulty variant: the type of w is not checked
quaternionToEulerUnchecked(quaternion) == EulerVariant(quaternion, FALSE, TRUE)

\* faulty variant: the pitch is Math.asin(sinp) whatever sinp is
quaternionToEulerNoClamp(quaternion) == EulerVariant(quaternion, TRUE, FALSE)

quaternionToEuler(quaternion) ==
    IF ~Truthy(quaternion) \/ ~IsNumber(Get(quaternion, "w"))
    THEN ZeroEuler      \* console.warn("Invalid quaternion:", quaternion)
    ELSE
      LET q0 == ToNumber(Get(quaternion, "w"))
          q1 == ToNumber(Get(quaternion, "x"))
          q2 == ToNumber(Get(quaternion, "y"))
          q3 == ToNumber(Get(quaternion, "z"))
      IN IF NaN \in {q0, q1, q2, q3}
         THEN [roll |-> NaN, pitch |-> NaN, yaw |-> NaN]
         ELSE
           LET w == q0.num
               x == q1.num
               y == q2.num
               z == q3.num
               \* all in halves: sinr_cosp = (w x + y z) / 2, cosr_cosp = (2 - x x - y y) / 2
               sinr == w * x + y * z
               sinrNeg == NegZeroProduct(w, x) /\ NegZeroProduct(y, z)
               cosr == 2 - x * x - y * y
               \* sinp = (w y - z x) / 2, so |sinp| >= 1 is |w y - z x| >= 2
               sinp == w * y - z * x
               siny == w * z + x * y
               sinyNeg == NegZeroProduct(w, z) /\ NegZeroProduct(x, y)
               cosy == 2 - y * y - z * z
               pitch == IF sinp >= 2 THEN 90000
                        ELSE IF sinp <= -2 THEN -90000
                        ELSE AsinDeg(sinp)
           IN [roll  |-> Num(Atan2Deg(sinr, sinrNeg, cosr)),
               pitch |-> Num(pitch),
               yaw   |-> Num(Atan2Deg(siny, sinyNeg, cosy))]

\* console.warn("Invalid quaternion:", quaternion) is called by quaternionToEuler
quaternionToEulerWarns(quaternion) ==
    ~Truthy(quaternion) \/ ~IsNumber(Get(quaternion, "w"))

\* ------------------------------------------------------------ quaternion extractor

\* faulty variant: the pose shape is tried before the direct orientation field
extractQuaternionPoseFirst(message) ==
    IF ~Truthy(message) \/ ~IsObject(message) THEN Undefined
    ELSE IF /\ Get(message, "x") # Undefined /\ Get(message, "y") # Undefined
            /\ Get(message, "z") # Undefined /\ Get(message, "w") # Undefined
         THEN message
    ELSE IF Truthy(OptGet(Get(message, "pose"), "orientation"))
         THEN Get(Get(message, "pose"), "orientation")
    ELSE IF Truthy(Get(message, "orientation")) THEN Get(message, "orientation")
    ELSE IF Truthy(OptGet(OptGet(Get(message, "pose"), "pose"), "orientation"))
         THEN Get(Get(Get(message, "pose"), "pose"), "orientation")
    ELSE IF Truthy(Get(message, "rotation")) THEN Get(message, "rotation")
    ELSE IF Truthy(OptGet(Get(message, "transform"), "rotation"))
         THEN Get(Get(message, "transform"), "rotation")
    ELSE Undefined

extractQuaternion(message) ==
    IF ~Truthy(message) \/ ~IsObject(message) THEN Undefined
    \* Direct quaternion
    ELSE IF /\ Get(message, "x") # Undefined /\ Get(message, "y") # Undefined
            /\ Get(message, "z") # Undefined /\ Get(message, "w") # Undefined
         THEN message
    \* IMU message
    ELSE IF Truthy(Get(message, "orientation")) THEN Get(message, "orientation")
    \* Pose message
    ELSE IF Truthy(OptGet(Get(message, "pose"), "orientation"))
         THEN Get(Get(message, "pose"), "orientation")
    \* Pose with covariance (like in Odometry)
    ELSE IF Truthy(OptGet(OptGet(Get(message, "pose"), "pose"), "orientation"))
         THEN Get(Get(Get(message, "pose"), "pose"), "orientation")
    \* Transform message
    ELSE IF Truthy(Get(message, "rotation")) THEN Get(message, "rotation")
    \* TransformStamped message
    ELSE IF Truthy(OptGet(Get(message, "transform"), "rotation"))
         THEN Get(Get(message, "transform"), "rotation")
    ELSE Undefined

\* ------------------------------------------------------------ Settings.tsx

getInitialState ==
    [topics |-> EmptyMap,
     displaySettings |-> [rollEnabled |-> TRUE, pitchEnabled |-> TRUE, yawEnabled |-> TRUE]]

\* existingTopic?.<flag> ?? true
FlagOrTrue(topicsMap, topicName, flag) ==
    IF MapHas(topicsMap, topicName) THEN MapGet(topicsMap, topicName)[flag] ELSE TRUE

\* faulty variant: the show-flags are reset when a topic is toggled
updateTopicStatusResetFlags(st, topicName, enabled) ==
    [st EXCEPT !.topics = MapSet(st.topics, topicName,
        [enabled |-> enabled, showRoll |-> TRUE, showPitch |-> TRUE, showYaw |-> TRUE])]

\* faulty variant: the SourceConfig of a disabled topic is dropped
updateTopicStatusDeleting(st, topicName, enabled) ==
    IF enabled
    THEN [st EXCEPT !.topics = MapSet(st.topics, topicName,
             [enabled   |-> TRUE,
              showRoll  |-> FlagOrTrue(st.topics, topicName, "showRoll"),
              showPitch |-> FlagOrTrue(st.topics, topicName, "showPitch"),
              showYaw   |-> FlagOrTrue(st.topics, topicName, "showYaw")])]
    ELSE [st EXCEPT !.topics = MapDelete(st.topics, topicName)]

updateTopicStatus(st, topicName, enabled) ==
    [st EXCEPT !.topics = MapSet(st.topics, topicName,
        [enabled   |-> enabled,
         showRoll  |-> FlagOrTrue(st.topics, topicName, "showRoll"),
         showPitch |-> FlagOrTrue(st.topics, topicName, "showPitch"),
         showYaw   |-> FlagOrTrue(st.topics, topicName, "showYaw")])]

\* faulty variant: the other display flags are reset to their defaults
updateDisplaySettingFromDefaults(st, component, enabled) ==
    [st EXCEPT !.displaySettings =
        [[rollEnabled |-> TRUE, pitchEnabled |-> TRUE, yawEnabled |-> TRUE]
            EXCEPT ![component] = enabled]]

updateDisplaySetting(st, component, enabled) ==
    [st EXCEPT !.displaySettings = [st.displaySettings EXCEPT ![component] = enabled]]

\* faulty variant: a topic without SourceConfig gets one
updateTopicComponentStatusUpsert(st, topicName, component, enabled) ==
    [st EXCEPT !.topics = MapSet(st.topics, topicName,
        [(IF MapHas(st.topics, topicName) THEN MapGet(st.topics, topicName)
          ELSE [enabled |-> FALSE, showRoll |-> TRUE, showPitch |-> TRUE, showYaw |-> TRUE])
            EXCEPT ![component] = enabled])]

updateTopicComponentStatus(st, topicName, component, enabled) ==
    IF ~MapHas(st.topics, topicName) THEN st
    ELSE [st EXCEPT !.topics = MapSet(st.topics, topicName,
              [MapGet(st.topics, topicName) EXCEPT ![component] = enabled])]

\* faulty variant: the enabled flag is not consulted
getEnabledTopicsUnfiltered(st) == MapKeys(st.topics)

getEnabledTopics(st) ==
    MapKeys(SelectSeq(st.topics, LAMBDA e : "enabled" \in DOMAIN e[2] /\ e[2].enabled))

\* record.name as a JavaScript value: undefined when the property is missing
Flag(record, name) == IF name \in DOMAIN record THEN Bool(record[name]) ELSE Undefined

\* state.topics[topicName]?.<flag> ?? fallback
TopicFlagOr(st, topicName, flag, fallback) ==
    IF MapHas(st.topics, topicName) /\ flag \in DOMAIN MapGet(st.topics, topicName)
    THEN MapGet(st.topics, topicName)[flag]
    ELSE fallback

BooleanField(label, value) == [label |-> label, input |-> "boolean", value |-> value]

\* the children of the node of an enabled topic
TopicSettingsChildren(st, topicName) ==
    [topicSettings |->
       [label |-> "Topic Settings",
        fields |->
          [showRoll  |-> BooleanField("Show Roll",
                                      Bool(TopicFlagOr(st, topicName, "showRoll", TRUE))),
           showPitch |-> BooleanField("Show Pitch",
                                      Bool(TopicFlagOr(st, topicName, "showPitch", TRUE))),
           showYaw   |-> BooleanField("Show Yaw",
                                      Bool(TopicFlagOr(st, topicName, "showYaw", TRUE)))]]]

\* faulty variant: the show-flag fields are attached whether the topic is enabled or not
TopicNodeWithChildren(st, topicName) ==
    [label |-> topicName,
     defaultExpansionState |-> "collapsed",
     visible |-> Bool(TopicFlagOr(st, topicName, "enabled", FALSE)),
     children |-> TopicSettingsChildren(st, topicName)]

\* the node the transform callback of buildSettingsTree stores for a topic
TopicNode(st, topicName) ==
    LET isEnabled == TopicFlagOr(st, topicName, "enabled", FALSE)
    IN [label |-> topicName,
        defaultExpansionState |-> "collapsed",
        visible |-> Bool(isEnabled),
        children |-> IF isEnabled THEN TopicSettingsChildren(st, topicName) ELSE Undefined]

\* transform(orientationTopics, (result, topic) => { result[topic.name] = ... }, {})
RECURSIVE TopicNodes(_, _, _)
TopicNodes(st, orientationTopics, result) ==
    IF orientationTopics = << >> THEN result
    ELSE TopicNodes(st, Tail(orientationTopics),
                    MapSet(result, Head(orientationTopics).name,
                           TopicNode(st, Head(orientationTopics).name)))

buildSettingsTree(st, orientationTopics) ==
    [general |->
       [label |-> "Display Elements",
        fields |->
          [rollEnabled  |-> BooleanField("Roll Display", Flag(st.displaySettings, "rollEnabled")),
           pitchEnabled |-> BooleanField("Pitch Display", Flag(st.displaySettings, "pitchEnabled")),
           yawEnabled   |-> BooleanField("Yaw Display", Flag(st.displaySettings, "yawEnabled"))]],
     topics |->
       [label |-> "Topics",
        children |-> TopicNodes(st, orientationTopics, EmptyMap)]]

\* state.topics[name]?.enabled, as a condition
TopicEnabled(topicsMap, name) == MapHas(topicsMap, name) /\ MapGet(topicsMap, name).enabled

\* ------------------------------------------------------------ OrientationPanel2D.tsx

MAX_TOPICS == 9

CONFIG ==
    [messageColors |-> << "rgba-1", "rgba-2", "rgba-3", "rgba-4",
                          "rgba-5", "rgba-6", "rgba-7", "rgba-8" >>,
     colorClasses  |-> << "message-1", "message-2", "message-3", "message-4",
                          "message-5", "message-6", "message-7", "message-8" >>]

\* array[index] with a zero-based index: undefined past the end
ArrayAt(array, index) ==
    IF index + 1 \in 1..Len(array) THEN Str(array[index + 1]) ELSE Undefined

ORIENTATION_TYPES == << "sensor_msgs/Imu", "nav_msgs/Odometry" >>

\* ------------------------------------------------------------ bounds of the model

\* deliveries the host makes before one of them is acknowledged
MaxInFlight == 2

\* setState updaters queued between two render passes
MaxPending == 1

\* messages in one delivered frame
MaxFrame == 1

\* messages in one delivered frame of the batch specification
MaxBatch == 2

\* candidate topics handed to buildSettingsTree
MaxCandidates == 2

\* topics in a catalog of the host
MaxCatalog == 2

\* ------------------------------------------------------------ React update queue

\* no update is queued: the component has no pending work
Idle ==
    /\ pendingOrientations = << >>
    /\ pendingTopics = None
    /\ pendingMessages = None
    /\ pendingRenderDone = None
    /\ pendingState = << >>

\* what the host call being made finds: the committed Orientation and message
\* caches, recorded when the panel has no pending work
Before == IF Idle THEN Some([orientations |-> orientations, messages |-> messages])
          ELSE None

\* one queued setOrientations updater applied to the previous Map
ApplyOrientationUpdate(prev, update) ==
    IF update.op = "set" THEN MapSet(prev, update.topic, update.euler)
    ELSE MapDelete(prev, update.topic)

RECURSIVE ApplyOrientationUpdates(_, _)
ApplyOrientationUpdates(prev, queue) ==
    IF queue = << >> THEN prev
    ELSE ApplyOrientationUpdates(ApplyOrientationUpdate(prev, Head(queue)), Tail(queue))

\* one queued setState updater applied to the previous PanelState
ApplyStateUpdate(prevState, update) ==
    CASE update.kind = "topicStatus" ->
           updateTopicStatus(prevState, update.topic, update.value)
      [] update.kind = "displaySetting" ->
           updateDisplaySetting(prevState, update.component, update.value)
      [] update.kind = "componentStatus" ->
           updateTopicComponentStatus(prevState, update.topic, update.component, update.value)

RECURSIVE ApplyStateUpdates(_, _)
ApplyStateUpdates(prevState, queue) ==
    IF queue = << >> THEN prevState
    ELSE ApplyStateUpdates(ApplyStateUpdate(prevState, Head(queue)), Tail(queue))

\* state.topics is a new object after the queued updaters ran
RECURSIVE TopicsReplaced(_, _)
TopicsReplaced(prevState, queue) ==
    IF queue = << >> THEN FALSE
    ELSE \/ Head(queue).kind = "topicStatus"
         \/ Head(queue).kind = "componentStatus" /\ MapHas(prevState.topics, Head(queue).topic)
         \/ TopicsReplaced(ApplyStateUpdate(prevState, Head(queue)), Tail(queue))

\* state.displaySettings is a new object after the queued updaters ran
DisplaySettingsReplaced(queue) ==
    \E i \in 1..Len(queue) : queue[i].kind = "displaySetting"

\* ------------------------------------------------------------ context.onRender

\* renderState.currentFrame.forEach: a message is kept when its topic is enabled
RECURSIVE AcceptFrameUnfiltered(_, _, _)
\* faulty variant: a message is kept whatever the state of its topic
AcceptFrameUnfiltered(newMessages, topicsMap, frame) ==
    IF frame = << >> THEN newMessages
    ELSE AcceptFrameUnfiltered(MapSet(newMessages, Head(frame).topic, Head(frame)),
                               topicsMap, Tail(frame))

RECURSIVE AcceptFrameFirstWins(_, _, _)
\* faulty variant: the first message of a topic in a frame is kept, not the last
AcceptFrameFirstWins(newMessages, topicsMap, frame) ==
    IF frame = << >> THEN newMessages
    ELSE LET rest == AcceptFrameFirstWins(newMessages, topicsMap, Tail(frame))
         IN IF TopicEnabled(topicsMap, Head(frame).topic)
            THEN MapSet(rest, Head(frame).topic, Head(frame))
            ELSE rest

RECURSIVE AcceptFrameFold(_, _, _)
AcceptFrameFold(newMessages, topicsMap, frame) ==
    IF frame = << >> THEN newMessages
    ELSE AcceptFrameFold(IF TopicEnabled(topicsMap, Head(frame).topic)
                         THEN MapSet(newMessages, Head(frame).topic, Head(frame))
                         ELSE newMessages,
                         topicsMap, Tail(frame))

\* const newMessages = new Map(messages); renderState.currentFrame.forEach(...)
AcceptFrame(newMessages, topicsMap, frame) == AcceptFrameFold(newMessages, topicsMap, frame)

\* renderState.currentFrame?.length
FrameOf(renderState) ==
    IF "currentFrame" \in DOMAIN renderState THEN renderState.currentFrame ELSE << >>

\* the host delivers renderState with the completion callback done; the callback
\* installed by the layout effect reads the messages and state.topics of the
\* last committed render
onRender(renderState, done) ==
    /\ owed < MaxInFlight
    /\ owed' = owed + 1
    /\ pendingRenderDone' = Some(done)
    /\ pendingTopics' = Some(renderState.topics)
    /\ pendingMessages' =
         IF Len(FrameOf(renderState)) > 0
         THEN Some(AcceptFrame(messages, state.topics, FrameOf(renderState)))
         ELSE pendingMessages
    /\ lastEvent' = [type |-> "onRender", frame |-> FrameOf(renderState),
                     before |-> Before]
    /\ UNCHANGED << orientations, topics, messages, renderDone, state,
                    pendingOrientations, pendingState, indicators, subscription,
                    saved, settingsEditor, styleSheets, mounted >>

\* ------------------------------------------------------------ settings actions

NoElement == "<undefined>"

\* path[index] with a zero-based index
PathAt(path, index) == IF index + 1 \in 1..Len(path) THEN path[index + 1] ELSE NoElement

IsBoolean(value) == DOMAIN value = {"bool"}

\* the setState updater actionHandler queues for an action, None when it queues none
ActionUpdate(action) ==
    LET path == action.payload.path
        value == action.payload.value
        update(kind, topic, component) ==
            [kind |-> kind, topic |-> topic, component |-> component,
             value |-> value.bool, eager |-> FALSE]
    IN IF action.action # "update" THEN None
       ELSE IF PathAt(path, 0) = "general"
       THEN IF PathAt(path, 1) \in {"rollEnabled", "pitchEnabled", "yawEnabled"}
               /\ IsBoolean(value)
            THEN update("displaySetting", "", PathAt(path, 1))
            ELSE None
       ELSE IF PathAt(path, 0) = "topics" /\ PathAt(path, 1) # NoElement
       THEN IF IsBoolean(value)
               /\ (\/ Len(path) = 2
                   \/ PathAt(path, 2) = "visible"
                   \/ (Len(path) = 3 /\ PathAt(path, 2) = "enabled"))
            THEN update("topicStatus", PathAt(path, 1), "")
            ELSE IF PathAt(path, 2) = "topicSettings" /\ Len(path) = 4 /\ IsBoolean(value)
                    /\ PathAt(path, 3) \in {"showRoll", "showPitch", "showYaw"}
            THEN update("componentStatus", PathAt(path, 1), PathAt(path, 3))
            ELSE None
       ELSE None

\* faulty variant: a disabled topic's cached message and Orientation are left in place
handleTopicEnabledChangeNoPurge(topicName, enabled, eager) ==
    /\ pendingState' = Append(pendingState,
           [kind |-> "topicStatus", topic |-> topicName, component |-> "",
            value |-> enabled, eager |-> TRUE])
    /\ subscription' =
         IF eager THEN Some(getEnabledTopics(updateTopicStatus(state, topicName, enabled)))
         ELSE subscription
    /\ UNCHANGED << pendingMessages, pendingOrientations >>

\* setState((prevState) => ...) of handleTopicEnabledChange. React runs the
\* updater at once (eager) only when the component has no pending work, and
\* otherwise in the next render pass; the updater's own setMessages and
\* setOrientations are queued when it runs, and its context.subscribe call is
\* made when it runs. It reads the messages of the last committed render.
handleTopicEnabledChange(topicName, enabled, eager) ==
    /\ pendingState' = Append(pendingState,
           [kind |-> "topicStatus", topic |-> topicName, component |-> "",
            value |-> enabled, eager |-> eager])
    /\ subscription' =
         IF eager THEN Some(getEnabledTopics(updateTopicStatus(state, topicName, enabled)))
         ELSE subscription
    /\ IF eager /\ ~enabled /\ MapHas(messages, topicName)
       THEN /\ pendingMessages' = Some(MapDelete(messages, topicName))
            /\ pendingOrientations' = Append(pendingOrientations,
                   [op |-> "delete", topic |-> topicName, euler |-> ZeroEuler])
       ELSE UNCHANGED << pendingMessages, pendingOrientations >>

actionHandler(action, eager) ==
    LET update == ActionUpdate(action)
    IN /\ Len(pendingState) < MaxPending
       /\ eager => (Idle /\ update # None /\ update.kind = "topicStatus")
       /\ IF update = None
          THEN UNCHANGED << pendingState, pendingMessages, pendingOrientations,
                            subscription >>
          ELSE IF update.kind = "topicStatus"
          THEN handleTopicEnabledChange(update.topic, update.value, eager)
          ELSE /\ pendingState' = Append(pendingState, update)
               /\ UNCHANGED << pendingMessages, pendingOrientations, subscription >>
       /\ lastEvent' = [type |-> "action", update |-> update, before |-> Before]
       /\ UNCHANGED << orientations, topics, messages, renderDone, state,
                       pendingTopics, pendingRenderDone, indicators, owed,
                       saved, settingsEditor, styleSheets, mounted >>

\* ------------------------------------------------------------ effects

\* useEffect [messages]: the setOrientations updaters queued for the cached messages
RECURSIVE ProcessMessagesFold(_)
ProcessMessagesFold(entries) ==
    IF entries = << >> THEN << >>
    ELSE LET topic == Head(entries)[1]
             message == Head(entries)[2]
             quaternion == extractQuaternion(message.message)
         IN (IF ~Truthy(quaternion) THEN << >>
             ELSE << [op |-> "set", topic |-> topic,
                      euler |-> quaternionToEuler(quaternion)] >>)
            \o ProcessMessagesFold(Tail(entries))

RECURSIVE ProcessMessagesClearing(_)
\* faulty variant: a message without a quaternion resets the topic's Orientation
ProcessMessagesClearing(entries) ==
    IF entries = << >> THEN << >>
    ELSE LET topic == Head(entries)[1]
             message == Head(entries)[2]
             quaternion == extractQuaternion(message.message)
         IN << [op |-> "set", topic |-> topic,
                euler |-> IF ~Truthy(quaternion) THEN ZeroEuler
                          ELSE quaternionToEuler(quaternion)] >>
            \o ProcessMessagesClearing(Tail(entries))

ProcessMessages(entries) == ProcessMessagesFold(entries)

\* one indicator element: its class, inline color and rotation
Indicator(topicName, topicIndex, angle) ==
    [topic |-> topicName,
     colorClass |-> ArrayAt(CONFIG.colorClasses, topicIndex),
     backgroundColor |-> ArrayAt(CONFIG.messageColors, topicIndex),
     rotate |-> angle]

NoIndicators == [roll |-> << >>, pitch |-> << >>, yaw |-> << >>]

\* orientations.forEach of the display effect, from topicIndex on
RECURSIVE RefreshFold(_, _, _, _)
RefreshFold(entries, topicIndex, st, drawn) ==
    IF entries = << >> THEN drawn
    ELSE LET topicName == Head(entries)[1]
             orientation == Head(entries)[2]
         IN IF topicIndex >= MAX_TOPICS
            THEN RefreshFold(Tail(entries), topicIndex, st, drawn)
            ELSE IF ~TopicEnabled(st.topics, topicName)
            THEN RefreshFold(Tail(entries), topicIndex, st, drawn)
            ELSE LET topicConfig == MapGet(st.topics, topicName)
                     add(axis, globalFlag, showFlag) ==
                         IF st.displaySettings[globalFlag] /\ topicConfig[showFlag]
                         THEN Append(drawn[axis],
                                     Indicator(topicName, topicIndex, orientation[axis]))
                         ELSE drawn[axis]
                 IN RefreshFold(Tail(entries), topicIndex + 1, st,
                        [roll  |-> add("roll", "rollEnabled", "showRoll"),
                         pitch |-> add("pitch", "pitchEnabled", "showPitch"),
                         yaw   |-> add("yaw", "yawEnabled", "showYaw")])

RECURSIVE RefreshIgnoringShowFlags(_, _, _, _)
\* faulty variant: the per-topic show-flags are not consulted
RefreshIgnoringShowFlags(entries, topicIndex, st, drawn) ==
    IF entries = << >> THEN drawn
    ELSE LET topicName == Head(entries)[1]
             orientation == Head(entries)[2]
         IN IF topicIndex >= MAX_TOPICS \/ ~TopicEnabled(st.topics, topicName)
            THEN RefreshIgnoringShowFlags(Tail(entries), topicIndex, st, drawn)
            ELSE LET add(axis, globalFlag) ==
                         IF st.displaySettings[globalFlag]
                         THEN Append(drawn[axis],
                                     Indicator(topicName, topicIndex, orientation[axis]))
                         ELSE drawn[axis]
                 IN RefreshIgnoringShowFlags(Tail(entries), topicIndex + 1, st,
                        [roll  |-> add("roll", "rollEnabled"),
                         pitch |-> add("pitch", "pitchEnabled"),
                         yaw   |-> add("yaw", "yawEnabled")])

\* useEffect [orientations, state.topics, state.displaySettings]: the indicators
\* in the dials after the effect (a dial whose display is off is not mounted)
RefreshIndicators(entries, topicIndex, st, drawn) == RefreshFold(entries, topicIndex, st, drawn)

\* the dials of the committed render before the display effect runs: a dial is
\* mounted only while its display is enabled
MountedIndicators(st, drawn) ==
    [roll  |-> IF st.displaySettings.rollEnabled THEN drawn.roll ELSE << >>,
     pitch |-> IF st.displaySettings.pitchEnabled THEN drawn.pitch ELSE << >>,
     yaw   |-> IF st.displaySettings.yawEnabled THEN drawn.yaw ELSE << >>]

\* the rows of the numeric list (the JSX of the committed render)
TopicValueRows(entries, st) ==
    [index \in 1..Len(entries) |->
        LET topicName == entries[index][1]
            orientation == entries[index][2]
            shown(globalFlag, showFlag) ==
                st.displaySettings[globalFlag]
                /\ MapHas(st.topics, topicName) /\ MapGet(st.topics, topicName)[showFlag]
        IN [topic |-> topicName,
            colorClass |-> ArrayAt(CONFIG.colorClasses, index - 1),
            roll  |-> IF shown("rollEnabled", "showRoll") THEN orientation.roll ELSE None,
            pitch |-> IF shown("pitchEnabled", "showPitch") THEN orientation.pitch ELSE None,
            yaw   |-> IF shown("yawEnabled", "showYaw") THEN orientation.yaw ELSE None]]

\* faulty variant: the subscription effect asks for every topic of the state
SubscribeEffectAllTopics(st) == Some(MapKeys(st.topics))

\* useEffect [context, state] after state was replaced: the cleanup of the last
\* run calls context.subscribe([]), then the effect subscribes to the enabled
\* topics if there are any
SubscribeEffect(st) ==
    IF Len(getEnabledTopics(st)) > 0 THEN Some(getEnabledTopics(st)) ELSE Some(<< >>)

\* the subscription effect of the first render: no cleanup runs before it
SubscribeOnMount(st) ==
    IF Len(getEnabledTopics(st)) > 0 THEN Some(getEnabledTopics(st)) ELSE None

\* faulty variant: every topic of the catalog is a candidate
orientationTopicsUnfiltered(topicsValue) ==
    IF topicsValue = Undefined THEN << >> ELSE topicsValue.items

\* useMemo [topics]: (topics ?? []).filter(topic => ORIENTATION_TYPES.includes(topic.schemaName))
orientationTopics(topicsValue) ==
    IF topicsValue = Undefined THEN << >>
    ELSE SelectSeq(topicsValue.items,
                   LAMBDA topic : \E i \in 1..Len(ORIENTATION_TYPES) :
                                     ORIENTATION_TYPES[i] = topic.schemaName)

\* faulty variant: the state is written back with the default display settings
SaveStateWithoutDisplay(st) ==
    Some([st EXCEPT !.displaySettings = getInitialState.displaySettings])

\* useEffect [context, actionHandler, state, orientationTopics]: context.saveState(state)
SaveState(st) == Some(st)

\* the same effect: the nodes handed to context.updatePanelSettingsEditor
SettingsEditorNodes(st, topicsValue) == buildSettingsTree(st, orientationTopics(topicsValue))

\* faulty variant: unmounting leaves the last subscription in place
SubscribeCleanupSkipped == subscription

\* the cleanup of the subscription effect: context.subscribe([])
SubscribeCleanup == Some(<< >>)

\* ------------------------------------------------------------ render pass

\* the queued updaters of handleTopicEnabledChange that run in this render pass
\* and purge: their setMessages and setOrientations are render-phase updates
LazyPurges(queue, closureMessages) ==
    SelectSeq(queue, LAMBDA u : u.kind = "topicStatus" /\ ~u.eager /\ ~u.value
                                /\ MapHas(closureMessages, u.topic))

RECURSIVE DeleteAll(_, _)
DeleteAll(prev, purges) ==
    IF purges = << >> THEN prev
    ELSE DeleteAll(MapDelete(prev, Head(purges).topic), Tail(purges))

\* one render pass of the component with the effects it triggers
Render ==
    LET purges == LazyPurges(pendingState, messages)
        newState == ApplyStateUpdates(state, pendingState)
        newMessages ==
            IF purges # << >> THEN MapDelete(messages, purges[Len(purges)].topic)
            ELSE IF pendingMessages # None THEN pendingMessages.some
            ELSE messages
        newOrientations ==
            DeleteAll(ApplyOrientationUpdates(orientations, pendingOrientations), purges)
        newRenderDone ==
            IF pendingRenderDone # None THEN pendingRenderDone.some ELSE renderDone
        messagesReplaced == pendingMessages # None \/ purges # << >>
        orientationsReplaced == pendingOrientations # << >> \/ purges # << >>
        refresh == \/ orientationsReplaced
                   \/ TopicsReplaced(state, pendingState)
                   \/ DisplaySettingsReplaced(pendingState)
        anyDisplay == \/ newState.displaySettings.rollEnabled
                      \/ newState.displaySettings.pitchEnabled
                      \/ newState.displaySettings.yawEnabled
        newTopics == IF pendingTopics # None THEN pendingTopics.some ELSE topics
        stateReplaced == \/ TopicsReplaced(state, pendingState)
                         \/ DisplaySettingsReplaced(pendingState)
        \* actionHandler is a new function when messages is a new Map;
        \* orientationTopics is a new array when topics was set
        settingsEffect == stateReplaced \/ messagesReplaced \/ pendingTopics # None
    IN /\ mounted
       /\ ~Idle
       /\ state' = newState
       /\ messages' = newMessages
       /\ orientations' = newOrientations
       /\ renderDone' = newRenderDone
       /\ topics' = newTopics
       /\ pendingState' = << >>
       /\ pendingMessages' = None
       /\ pendingTopics' = None
       /\ pendingRenderDone' = None
       \* useEffect [messages]
       /\ pendingOrientations' =
            IF messagesReplaced THEN ProcessMessages(newMessages) ELSE << >>
       \* useEffect [renderDone]: renderDone?.()
       /\ owed' = IF newRenderDone # renderDone /\ newRenderDone # Undefined
                  THEN owed - 1
                  ELSE owed
       \* useEffect [orientations, state.topics, state.displaySettings]
       /\ indicators' =
            IF refresh /\ anyDisplay
            THEN RefreshIndicators(newOrientations, 0, newState, NoIndicators)
            ELSE MountedIndicators(newState, indicators)
       \* useEffect [context, state]; the context.subscribe calls of the updaters
       \* that ran in this pass came before it
       /\ subscription' = IF stateReplaced THEN SubscribeEffect(newState) ELSE subscription
       \* useEffect [context, actionHandler, state, orientationTopics]
       /\ saved' = IF settingsEffect THEN SaveState(newState) ELSE saved
       /\ settingsEditor' =
            IF settingsEffect THEN SettingsEditorNodes(newState, newTopics) ELSE settingsEditor
       /\ UNCHANGED << styleSheets, mounted, lastEvent >>

\* ------------------------------------------------------------ mount

\* useState(() => ({ ...getInitialState(), ...savedState, topics: { ... } }))
InitialPanelState(savedState) ==
    [topics |-> IF "topics" \in DOMAIN savedState THEN savedState.topics ELSE EmptyMap,
     displaySettings |-> IF "displaySettings" \in DOMAIN savedState
                         THEN savedState.displaySettings
                         ELSE getInitialState.displaySettings]

\* the panel after its first render, for the persisted state the host hands over
Mounted(savedState) ==
    /\ state = InitialPanelState(savedState)
    /\ orientations = EmptyMap
    /\ messages = EmptyMap
    /\ topics = Undefined
    /\ renderDone = Undefined
    /\ pendingOrientations = << >>
    /\ pendingTopics = None
    /\ pendingMessages = None
    /\ pendingRenderDone = None
    /\ pendingState = << >>
    /\ indicators = NoIndicators
    /\ owed = 0
    /\ subscription = SubscribeOnMount(InitialPanelState(savedState))
    /\ saved = SaveState(InitialPanelState(savedState))
    /\ settingsEditor = SettingsEditorNodes(InitialPanelState(savedState), Undefined)
    /\ styleSheets = 1
    /\ mounted = TRUE

\* the function initOrientationPanel2D returns: root.unmount() runs the cleanup
\* of every effect, the subscription effect's and the style effect's among them
Unmount ==
    /\ mounted
    /\ mounted' = FALSE
    /\ subscription' = SubscribeCleanup
    /\ styleSheets' = styleSheets - 1
    /\ lastEvent' = [type |-> "unmount"]
    /\ UNCHANGED << orientations, topics, messages, renderDone, state, pendingOrientations,
                    pendingTopics, pendingMessages, pendingRenderDone, pendingState,
                    indicators, owed, saved, settingsEditor >>

\* ------------------------------------------------------------ inputs

Quaternion(x, y, z, w) == [x |-> Num(x), y |-> Num(y), z |-> Num(z), w |-> Num(w)]

\* (0.5, 0.5, 0.5, 0.5): roll 90, pitch 0, yaw 90
QuarterTurns == Quaternion(1, 1, 1, 1)

\* (0, 0, 1, 0): roll 0, pitch 0, yaw 180
HalfTurnYaw == Quaternion(0, 0, 2, 0)

\* sensor_msgs/Imu
ImuMessage(q) == [orientation |-> q]

\* nav_msgs/Odometry
OdometryMessage(q) == [pose |-> [pose |-> [orientation |-> q]]]

\* {} : no quaternion in it
EmptyMessage == << >>

\* an orientation field that holds no numbers
BrokenImuMessage == [orientation |-> << >>]

MessageEvent(topic, message) == [topic |-> topic, message |-> message]

\* the message events of the given topics and payloads
Events(topicNames, payloads) == {MessageEvent(t, m) : t \in topicNames, m \in payloads}

\* the frames of at most maxLength of the given message events
Frames(events, maxLength) == UNION { [1..n -> events] : n \in 0..maxLength }

\* the deliveries of the host: with a frame, or without currentFrame
RenderStates(frames, catalog) ==
    {[topics |-> catalog]} \cup {[currentFrame |-> f, topics |-> catalog] : f \in frames}

Catalog == Array(<< [name |-> "/imu", schemaName |-> "sensor_msgs/Imu"],
                    [name |-> "/odom", schemaName |-> "nav_msgs/Odometry"] >>)

UpdateAction(path, value) == [action |-> "update", payload |-> [path |-> path, value |-> value]]

\* the visibility toggle and the enabled checkbox of a topic
ToggleActions(topicNames) ==
    {UpdateAction(<< "topics", t >>, Bool(b)) : t \in topicNames, b \in BOOLEAN}

TopicNames == {"/imu", "/odom"}

DoneFunctions == {Function("done1"), Function("done2"), Function("done3")}

\* the host passes a new closure with each delivery: one that is neither the
\* callback of the committed render nor the queued one
FreshDone ==
    CHOOSE d \in DoneFunctions : d # renderDone /\ Some(d) # pendingRenderDone

\* ------------------------------------------------------------ Spec: the panel

Init ==
    /\ Mounted(<< >>)
    /\ lastEvent = [type |-> "mount"]

Deliver ==
    \E renderState \in RenderStates(Frames(Events(TopicNames, {ImuMessage(QuarterTurns)}),
                                           MaxFrame), Catalog) :
        onRender(renderState, FreshDone)

Edit ==
    \E action \in ToggleActions(TopicNames), eager \in BOOLEAN :
        actionHandler(action, eager)

Next == Deliver \/ Edit \/ Render

Spec == Init /\ [][Next]_vars

\* ------------------------------------------------------------ helpers of the claims

\* the topics of the messages of a frame
FrameTopics(frame) == {frame[i].topic : i \in 1..Len(frame)}

\* the last message of a topic in a frame
LastOf(frame, topic) ==
    frame[CHOOSE i \in 1..Len(frame) :
            /\ frame[i].topic = topic
            /\ \A j \in (i + 1)..Len(frame) : frame[j].topic # topic]

\* the entry of a key in a Map, None when it has none
Entry(m, k) == IF MapHas(m, k) THEN Some(MapGet(m, k)) ELSE None

\* the last host call was a delivery
Delivered == lastEvent.type = "onRender"

\* the last host call was the settings action that disables a topic
Disabled ==
    /\ lastEvent.type = "action"
    /\ lastEvent.update # None
    /\ lastEvent.update.kind = "topicStatus"
    /\ ~lastEvent.update.value

\* ------------------------------------------------------------ C1

\* C1: every source that has an entry in the cached Orientation map (and so a
\* row in the numeric list) has a SourceConfig with enabled = true.
C1_CachedImpliesEnabled ==
    /\ \A t \in KeySet(orientations) : TopicEnabled(state.topics, t)
    /\ \A i \in 1..Len(TopicValueRows(orientations, state)) :
          TopicEnabled(state.topics, TopicValueRows(orientations, state)[i].topic)

\* ------------------------------------------------------------ C2

\* C2: when a source that has a cached Orientation is disabled through the
\* settings action of a panel with no pending work, then once the disable is
\* processed (its updater has run in a render pass) and with no delivery since,
\* the source has neither a cached message nor a cached Orientation.
C2_DisablePurges ==
    (/\ Disabled
     /\ lastEvent.before # None
     /\ MapHas(lastEvent.before.some.orientations, lastEvent.update.topic)
     /\ pendingState = << >>)
    => /\ ~MapHas(messages, lastEvent.update.topic)
       /\ ~MapHas(orientations, lastEvent.update.topic)
       /\ ~MapHas(ApplyOrientationUpdates(orientations, pendingOrientations),
                  lastEvent.update.topic)

\* a source with a cached Orientation was disabled and the disable is processed
C2_Witness ==
    /\ Disabled
    /\ lastEvent.before # None
    /\ MapHas(lastEvent.before.some.orientations, lastEvent.update.topic)
    /\ MapHas(lastEvent.before.some.messages, lastEvent.update.topic)
    /\ Idle
    /\ ~TopicEnabled(state.topics, lastEvent.update.topic)

\* ------------------------------------------------------------ C3

\* C3: the completion callback of every delivery is invoked exactly once: when
\* the panel has no pending work left, no delivery is still owed its callback.
C3_DoneOncePerDelivery == Idle => owed = 0

\* ------------------------------------------------------------ C7

\* C7: a frame of messages whose sources have no SourceConfig or a SourceConfig
\* that is not enabled, delivered to a panel with no pending work, changes
\* neither the cached message map nor the cached Orientation map, at any
\* point of its processing.
C7_NonEnabledDiscarded ==
    (/\ Delivered
     /\ lastEvent.before # None
     /\ \A t \in FrameTopics(lastEvent.frame) : ~TopicEnabled(state.topics, t))
    => /\ messages = lastEvent.before.some.messages
       /\ pendingMessages # None => pendingMessages.some = lastEvent.before.some.messages
       /\ orientations = lastEvent.before.some.orientations
       /\ ApplyOrientationUpdates(orientations, pendingOrientations)
            = lastEvent.before.some.orientations

\* a message of a disabled source was delivered next to a cached enabled
\* source, and the delivery is processed
C7_Witness ==
    /\ Delivered
    /\ lastEvent.before # None
    /\ Len(lastEvent.frame) > 0
    /\ \A t \in FrameTopics(lastEvent.frame) :
          MapHas(state.topics, t) /\ ~MapGet(state.topics, t).enabled
    /\ Len(orientations) > 0
    /\ Idle

\* ------------------------------------------------------------ SpecBatch: batches

\* the SourceConfig of an enabled topic with every show-flag set
EnabledTopic == [enabled |-> TRUE, showRoll |-> TRUE, showPitch |-> TRUE, showYaw |-> TRUE]

\* the persisted state of a panel on which /imu and /odom were enabled
BothEnabled == [topics |-> << << "/imu", EnabledTopic >>, << "/odom", EnabledTopic >> >>]

\* /odom publishes two different poses and a message without quaternion;
\* /imu publishes one orientation
BatchEvents ==
    Events({"/odom"}, {OdometryMessage(QuarterTurns), OdometryMessage(HalfTurnYaw),
                       EmptyMessage})
    \cup Events({"/imu"}, {ImuMessage(QuarterTurns)})

InitBatch ==
    /\ Mounted(BothEnabled)
    /\ lastEvent = [type |-> "mount"]

\* the host delivers the next frame once the panel has called the completion
\* callback of the last one
DeliverBatch ==
    /\ owed = 0
    /\ \E renderState \in RenderStates(Frames(BatchEvents, MaxBatch), Catalog) :
          onRender(renderState, FreshDone)

NextBatch == DeliverBatch \/ Render

SpecBatch == InitBatch /\ [][NextBatch]_vars

\* the last host call was a delivery to a panel with no pending work, and the
\* panel has processed it
Processed ==
    /\ Delivered
    /\ lastEvent.before # None
    /\ Idle

\* the quaternion the message effect extracts from the last message of a topic
LastQuaternion(frame, topic) == extractQuaternion(LastOf(frame, topic).message)

\* ------------------------------------------------------------ C4

\* C4: after a delivered batch is processed, every enabled source of the batch
\* has as its cached message the last message of that source in the batch, and
\* as its cached Orientation the conversion of that message's quaternion when
\* the message has one.
C4_LastWriteWins ==
    Processed =>
      \A t \in FrameTopics(lastEvent.frame) :
         TopicEnabled(state.topics, t) =>
           /\ Entry(messages, t) = Some(LastOf(lastEvent.frame, t))
           /\ Truthy(LastQuaternion(lastEvent.frame, t)) =>
                Entry(orientations, t)
                  = Some(quaternionToEuler(LastQuaternion(lastEvent.frame, t)))

\* a processed batch held two different messages of one source, the last of
\* them with a quaternion, and the source had another Orientation before
C4_Witness ==
    /\ Processed
    /\ Len(lastEvent.frame) = 2
    /\ lastEvent.frame[1].topic = lastEvent.frame[2].topic
    /\ lastEvent.frame[1].message = OdometryMessage(QuarterTurns)
    /\ lastEvent.frame[2].message = OdometryMessage(HalfTurnYaw)
    /\ Entry(orientations, lastEvent.frame[2].topic) = Some(quaternionToEuler(HalfTurnYaw))
    /\ Entry(lastEvent.before.some.orientations, lastEvent.frame[2].topic)
         = Some(quaternionToEuler(QuarterTurns))

\* ------------------------------------------------------------ C5

\* C5: after a delivered batch is processed, an enabled source whose message
\* has no resolvable quaternion has the cached Orientation it had before the
\* delivery (none if it had none), and so has every source the batch has no
\* message of.
C5_UnresolvableKeepsPrevious ==
    Processed =>
      \A t \in TopicNames :
         (\/ t \notin FrameTopics(lastEvent.frame)
          \/ /\ TopicEnabled(state.topics, t)
             /\ ~Truthy(LastQuaternion(lastEvent.frame, t)))
         => Entry(orientations, t) = Entry(lastEvent.before.some.orientations, t)

\* a message without quaternion was delivered for a source that has a cached
\* Orientation, while the other source has one too, and the batch is processed
C5_Witness ==
    /\ Processed
    /\ Len(lastEvent.frame) = 1
    /\ lastEvent.frame[1] = MessageEvent("/odom", EmptyMessage)
    /\ Entry(lastEvent.before.some.orientations, "/odom") = Some(quaternionToEuler(HalfTurnYaw))
    /\ Entry(orientations, "/odom") = Some(quaternionToEuler(HalfTurnYaw))
    /\ MapHas(orientations, "/imu")

\* ------------------------------------------------------------ SpecMalformed

\* an orientation that has w and nothing else
PartialImuMessage == [orientation |-> [w |-> Num(2)]]

\* an orientation whose fields are strings
TextImuMessage ==
    [orientation |-> [x |-> Str("0"), y |-> Str("0"), z |-> Str("0"), w |-> Str("1")]]

\* /imu publishes an orientation and three malformed messages; /odom a pose
MalformedEvents ==
    Events({"/imu"}, {ImuMessage(QuarterTurns), BrokenImuMessage, PartialImuMessage,
                      TextImuMessage})
    \cup Events({"/odom"}, {OdometryMessage(HalfTurnYaw)})

\* the host delivers the next frame once the panel has called the completion
\* callback of the last one
DeliverMalformed ==
    /\ owed = 0
    /\ \E renderState \in RenderStates(Frames(MalformedEvents, MaxFrame), Catalog) :
          onRender(renderState, FreshDone)

NextMalformed == DeliverMalformed \/ Render

SpecMalformed == InitBatch /\ [][NextMalformed]_vars

\* ------------------------------------------------------------ C6

\* the message has an unrecognized shape, or its quaternion has a field that
\* is missing or not a number
Malformed(message) ==
    \/ ~Truthy(extractQuaternion(message))
    \/ \E field \in {"x", "y", "z", "w"} :
          DOMAIN Get(extractQuaternion(message), field) # {"num"}

DisplayActions(topicNames) ==
    {UpdateAction(<< "general", flag >>, Bool(b))
        : flag \in {"rollEnabled", "pitchEnabled", "yawEnabled"}, b \in BOOLEAN}
    \cup {UpdateAction(<< "topics", t, "topicSettings", flag >>, Bool(b))
        : t \in topicNames, flag \in {"showRoll", "showPitch", "showYaw"}, b \in BOOLEAN}

\* the frame the host delivers: one message of each of the two sources
DisplayFrame ==
    << MessageEvent("/imu", ImuMessage(QuarterTurns)),
       MessageEvent("/odom", OdometryMessage(HalfTurnYaw)) >>

InitDisplay ==
    /\ Mounted(BothEnabled)
    /\ lastEvent = [type |-> "mount"]

\* the host delivers the next frame once the panel has called the completion
\* callback of the last one
DeliverDisplay ==
    /\ owed = 0
    /\ \E renderState \in RenderStates({DisplayFrame}, Catalog) :
          onRender(renderState, FreshDone)

EditDisplay ==
    \E action \in DisplayActions({"/imu"}) : actionHandler(action, FALSE)

NextDisplay == DeliverDisplay \/ EditDisplay \/ Render

SpecDisplay == InitDisplay /\ [][NextDisplay]_vars

\* the global display flag and the show-flag of each axis
AxisFlags ==
    [roll  |-> [global |-> "rollEnabled", show |-> "showRoll"],
     pitch |-> [global |-> "pitchEnabled", show |-> "showPitch"],
     yaw   |-> [global |-> "yawEnabled", show |-> "showYaw"]]

\* the cached sources a refresh includes: the enabled ones, up to the cap
Included ==
    LET enabled == SelectSeq(orientations, LAMBDA e : TopicEnabled(state.topics, e[1]))
    IN SubSeq(enabled, 1, IF Len(enabled) < MAX_TOPICS THEN Len(enabled) ELSE MAX_TOPICS)

\* the positions in the dial of an axis of the indicators of a topic
IndicatorsOf(axis, topic) ==
    {k \in 1..Len(indicators[axis]) : indicators[axis][k].topic = topic}

\* ------------------------------------------------------------ C9

\* C9: for every source a refresh includes and every axis, the dial of the axis
\* holds an indicator of the source exactly when the global display flag of the
\* axis and the show-flag of the source for the axis are both set, it holds at
\* most one, and the indicator is rotated by the cached angle of the source.
C9_IndicatorIffBothFlags ==
    \A axis \in {"roll", "pitch", "yaw"} :
      \A i \in 1..Len(Included) :
        LET topic == Included[i][1]
            both == /\ state.displaySettings[AxisFlags[axis].global]
                    /\ MapGet(state.topics, topic)[AxisFlags[axis].show]
        IN /\ both <=> IndicatorsOf(axis, topic) # {}
           /\ Cardinality(IndicatorsOf(axis, topic)) <= 1
           /\ \A k \in IndicatorsOf(axis, topic) :
                 indicators[axis][k].rotate = Included[i][2][axis]

\* both sources are cached and the roll display is on; /imu has its roll
\* show-flag cleared and no roll indicator, /odom has one; the pitch display is
\* off and its dial is empty; the yaw dial shows both sources at their angles
C9_Witness ==
    /\ Idle
    /\ Len(Included) = 2
    /\ state.displaySettings.rollEnabled
    /\ ~MapGet(state.topics, "/imu").showRoll
    /\ IndicatorsOf("roll", "/imu") = {}
    /\ IndicatorsOf("roll", "/odom") # {}
    /\ ~state.displaySettings.pitchEnabled
    /\ indicators.pitch = << >>
    /\ \E k \in IndicatorsOf("yaw", "/imu") : indicators.yaw[k].rotate = Num(90000)
    /\ \E k \in IndicatorsOf("yaw", "/odom") : indicators.yaw[k].rotate = Num(180000)

\* ------------------------------------------------------------ SpecCap: ten sources

\* one source more than MAX_TOPICS
CapTopicNames ==
    << "/t01", "/t02", "/t03", "/t04", "/t05", "/t06", "/t07", "/t08", "/t09", "/t10" >>

\* the persisted state of a panel on which the ten sources were enabled
AllEnabled == [topics |-> [i \in 1..Len(CapTopicNames) |-> << CapTopicNames[i], EnabledTopic >>]]

\* the frames the host delivers: a message of each of the first n sources
CapFrames ==
    {[i \in 1..n |-> MessageEvent(CapTopicNames[i], ImuMessage(QuarterTurns))]
        : n \in (MAX_TOPICS - 1)..Len(CapTopicNames)}

CapCatalog ==
    Array([i \in 1..Len(CapTopicNames) |->
              [name |-> CapTopicNames[i], schemaName |-> "sensor_msgs/Imu"]])

InitCap ==
    /\ Mounted(AllEnabled)
    /\ lastEvent = [type |-> "mount"]

\* the host delivers the next frame once the panel has called the completion
\* callback of the last one
DeliverCap ==
    /\ owed = 0
    /\ \E renderState \in RenderStates(CapFrames, CapCatalog) :
          onRender(renderState, FreshDone)

\* the display checkboxes, and the toggle of the first source
EditCap ==
    \E action \in DisplayActions({}) \cup ToggleActions({CapTopicNames[1]}),
       eager \in BOOLEAN :
        actionHandler(action, eager)

NextCap == DeliverCap \/ EditCap \/ Render

SpecCap == InitCap /\ [][NextCap]_vars

\* ten enabled sources have a cached Orientation
TenEnabledCached ==
    /\ Len(orientations) = MAX_TOPICS + 1
    /\ \A i \in 1..Len(orientations) : TopicEnabled(state.topics, orientations[i][1])

\* the entries of an array, as values
Palette(array) == {Str(array[i]) : i \in 1..Len(array)}

\* ------------------------------------------------------------ C8

\* C8: when ten enabled sources have a cached Orientation, each dial that is
\* displayed holds the indicators of exactly the first nine sources of the
\* cache, in its order, each with a color and a color class of the palette,
\* and none of the tenth source, which stays in the cache.
C8_FirstNineColored ==
    TenEnabledCached =>
      \A axis \in {"roll", "pitch", "yaw"} :
        state.displaySettings[AxisFlags[axis].global] =>
          /\ Len(indicators[axis]) = MAX_TOPICS
          /\ \A k \in 1..Len(indicators[axis]) :
                /\ indicators[axis][k].topic = orientations[k][1]
                /\ indicators[axis][k].backgroundColor \in Palette(CONFIG.messageColors)
                /\ indicators[axis][k].colorClass \in Palette(CONFIG.colorClasses)
          /\ IndicatorsOf(axis, orientations[MAX_TOPICS + 1][1]) = {}

\* ------------------------------------------------------------ SpecExtract: the extractor

\* the quaternions the fields of a message hold, one per place
BareQuaternion == Quaternion(0, 0, 0, 2)
PoseQuaternion == Quaternion(2, 0, 0, 0)
PoseCovQuaternion == Quaternion(0, 2, 0, 0)
RotationQuaternion == Quaternion(1, -1, 1, -1)
TransformQuaternion == Quaternion(-1, 1, -1, 1)

\* the values a field of a message takes, by the name of the variant
FieldVariants ==
    [bare        |-> {"absent", "xyz", "xyzw"},
     orientation |-> {"absent", "null", "quaternion"},
     pose        |-> {"absent", "null", "empty", "orientation", "pose", "both"},
     rotation    |-> {"absent", "quaternion"},
     transform   |-> {"absent", "empty", "rotation"}]

\* the properties a variant of a field adds to the message
FieldProperties(field, variant) ==
    CASE variant = "absent" -> << >>
      [] field = "bare" /\ variant = "xyz" -> [x |-> Num(0), y |-> Num(0), z |-> Num(0)]
      [] field = "bare" /\ variant = "xyzw" -> BareQuaternion
      [] field = "orientation" /\ variant = "null" -> [orientation |-> Null]
      [] field = "orientation" /\ variant = "quaternion" -> [orientation |-> QuarterTurns]
      [] field = "pose" /\ variant = "null" -> [pose |-> Null]
      [] field = "pose" /\ variant = "empty" -> [pose |-> << >>]
      [] field = "pose" /\ variant = "orientation" -> [pose |-> [orientation |-> PoseQuaternion]]
      [] field = "pose" /\ variant = "pose" ->
           [pose |-> [pose |-> [orientation |-> PoseCovQuaternion]]]
      [] field = "pose" /\ variant = "both" ->
           [pose |-> [orientation |-> PoseQuaternion,
                      pose |-> [orientation |-> PoseCovQuaternion]]]
      [] field = "rotation" /\ variant = "quaternion" -> [rotation |-> RotationQuaternion]
      [] field = "transform" /\ variant = "empty" -> [transform |-> << >>]
      [] field = "transform" /\ variant = "rotation" ->
           [transform |-> [rotation |-> TransformQuaternion]]

\* the object with the properties of both objects
Merge(a, b) ==
    [name \in DOMAIN a \cup DOMAIN b |-> IF name \in DOMAIN a THEN a[name] ELSE b[name]]

\* the message objects: every choice of a variant for every field
MessageObjects ==
    {Merge(FieldProperties("bare", choice.bare),
       Merge(FieldProperties("orientation", choice.orientation),
         Merge(FieldProperties("pose", choice.pose),
           Merge(FieldProperties("rotation", choice.rotation),
                 FieldProperties("transform", choice.transform)))))
        : choice \in [bare : FieldVariants.bare, orientation : FieldVariants.orientation,
                      pose : FieldVariants.pose, rotation : FieldVariants.rotation,
                      transform : FieldVariants.transform]}

\* the values that are no objects
NonObjects == {Null, Undefined, Num(3), Str("quaternion"), Bool(TRUE), Bool(FALSE)}

\* a caller holds a message and has not called the extractor yet
InitExtract ==
    /\ Mounted(<< >>)
    /\ \E message \in MessageObjects \cup NonObjects :
          lastEvent = [type |-> "extractQuaternion", message |-> message, result |-> None]

\* the call extractQuaternion(message)
Extract ==
    /\ lastEvent.type = "extractQuaternion"
    /\ lastEvent.result = None
    /\ lastEvent' = [lastEvent EXCEPT !.result = Some(extractQuaternion(lastEvent.message))]
    /\ UNCHANGED << orientations, topics, messages, renderDone, state, pendingOrientations,
                    pendingTopics, pendingMessages, pendingRenderDone, pendingState,
                    indicators, owed, subscription, saved, settingsEditor, styleSheets,
                    mounted >>

NextExtract == Extract

SpecExtract == InitExtract /\ [][NextExtract]_vars

\* the places of a message a quaternion is looked for, in the order of the
\* shapes; the first is the message itself
ShapePaths ==
    << << >>, << "orientation" >>, << "pose", "orientation" >>,
       << "pose", "pose", "orientation" >>, << "rotation" >>, << "transform", "rotation" >> >>

\* the value at a path of properties, undefined when a step of it is missing
RECURSIVE At(_, _)
At(value, path) ==
    IF path = << >> THEN value
    ELSE IF ~IsObject(value) \/ Head(path) \notin DOMAIN value THEN Undefined
    ELSE At(value[Head(path)], Tail(path))

\* the shape is present in the message: the bare shape when the message has
\* all of x, y, z and w, another shape when its place holds something
ShapePresent(message, shape) ==
    IF shape = 1
    THEN \A field \in {"x", "y", "z", "w"} : At(message, << field >>) # Undefined
    ELSE Truthy(At(message, ShapePaths[shape]))

\* a call of the extractor has returned
Extracted ==
    /\ lastEvent.type = "extractQuaternion"
    /\ lastEvent.result # None

\* ------------------------------------------------------------ C10

\* C10: the extractor returns what the first shape present in the message
\* holds, in the order bare x,y,z,w; orientation; pose.orientation;
\* pose.pose.orientation; rotation; transform.rotation. It returns nothing for
\* a message that has no shape, as {} or a value that is no object. A message
\* with orientation and pose.orientation yields orientation, and
\* {pose: {pose: {orientation: q}}} yields q.
C10_FirstShapePresent ==
    Extracted =>
      LET message == lastEvent.message
          result == lastEvent.result.some
          present == {shape \in 1..Len(ShapePaths) : ShapePresent(message, shape)}
      IN /\ (~IsObject(message) \/ present = {}) => result = Undefined
         /\ (IsObject(message) /\ present # {}) =>
               \E first \in present :
                  /\ \A shape \in present : first <= shape
                  /\ result = At(message, ShapePaths[first])
         /\ message = [orientation |-> QuarterTurns, pose |-> [orientation |-> PoseQuaternion]]
               => result = QuarterTurns
         /\ message = OdometryMessage(PoseCovQuaternion) => result = PoseCovQuaternion
         /\ message = EmptyMessage => result = Undefined

\* the extractor returned the orientation of a message that has orientation,
\* pose.orientation, pose.pose.orientation and rotation
C10_Witness ==
    /\ Extracted
    /\ lastEvent.message =
         [orientation |-> QuarterTurns,
          pose |-> [orientation |-> PoseQuaternion, pose |-> [orientation |-> PoseCovQuaternion]],
          rotation |-> RotationQuaternion]
    /\ lastEvent.result = Some(QuarterTurns)

\* ------------------------------------------------------------ SpecEuler: the converter

\* the components of a quaternion, in halves: -1, -0.5, 0, 0.5 and 1
Components == {-2, -1, 0, 1, 2}

NumericQuaternions ==
    {Quaternion(x, y, z, w) : x \in Components, y \in Components,
                              z \in Components, w \in Components}

\* no quaternion, values that are no objects, and objects whose w is missing
\* or is no number
InvalidQuaternions ==
    {Undefined, Null, Num(0), Num(3), Str("quaternion"), Bool(FALSE), << >>,
     [x |-> Num(1), y |-> Num(1), z |-> Num(1)],
     [x |-> Num(1), y |-> Num(1), z |-> Num(1), w |-> Undefined],
     [x |-> Num(1), y |-> Num(1), z |-> Num(1), w |-> Null],
     [x |-> Num(1), y |-> Num(1), z |-> Num(1), w |-> Str("1")],
     [x |-> Num(1), y |-> Num(1), z |-> Num(1), w |-> Bool(TRUE)],
     [x |-> Num(1), y |-> Num(1), z |-> Num(1), w |-> [value |-> Num(1)]]}

\* quaternions whose w is a number and that have a field that is NaN or missing
NaNQuaternions ==
    {[x |-> Num(0), y |-> Num(0), z |-> Num(0), w |-> NaN],
     [x |-> NaN, y |-> Num(0), z |-> Num(0), w |-> Num(2)],
     [w |-> Num(2)]}

\* a caller holds a quaternion and has not called the converter yet
InitEuler ==
    /\ Mounted(<< >>)
    /\ \E quaternion \in NumericQuaternions \cup InvalidQuaternions \cup NaNQuaternions :
          lastEvent = [type |-> "quaternionToEuler", quaternion |-> quaternion,
                       result |-> None, warned |-> FALSE]

\* the call quaternionToEuler(quaternion)
Convert ==
    /\ lastEvent.type = "quaternionToEuler"
    /\ lastEvent.result = None
    /\ lastEvent' = [lastEvent EXCEPT
                       !.result = Some(quaternionToEuler(lastEvent.quaternion)),
                       !.warned = quaternionToEulerWarns(lastEvent.quaternion)]
    /\ UNCHANGED << orientations, topics, messages, renderDone, state, pendingOrientations,
                    pendingTopics, pendingMessages, pendingRenderDone, pendingState,
                    indicators, owed, subscription, saved, settingsEditor, styleSheets,
                    mounted >>

NextEuler == Convert

SpecEuler == InitEuler /\ [][NextEuler]_vars

\* a call of the converter has returned
Converted ==
    /\ lastEvent.type = "quaternionToEuler"
    /\ lastEvent.result # None

\* ------------------------------------------------------------ C11

\* C11: the converter applied to no quaternion (null, undefined), or to a value
\* whose w is missing or is not of type number, returns roll 0, pitch 0, yaw 0
\* and has reported a diagnostic.
C11_InvalidGivesZeros ==
    (/\ Converted
     /\ \/ lastEvent.quaternion \in {Null, Undefined}
        \/ At(lastEvent.quaternion, << "w" >>) = Undefined
        \/ DOMAIN At(lastEvent.quaternion, << "w" >>) \notin {{"num"}, {"nan"}})
    => /\ lastEvent.result = Some([roll |-> Num(0), pitch |-> Num(0), yaw |-> Num(0)])
       /\ lastEvent.warned

\* the converter was applied to a quaternion whose w is the string "1", and
\* returned zeros with a diagnostic
C11_Witness ==
    /\ Converted
    /\ lastEvent.quaternion = [x |-> Num(1), y |-> Num(1), z |-> Num(1), w |-> Str("1")]
    /\ lastEvent.result = Some([roll |-> Num(0), pitch |-> Num(0), yaw |-> Num(0)])
    /\ lastEvent.warned

\* ------------------------------------------------------------ C12

\* twice s = 2 (w y - z x) of a quaternion whose components count halves
TwiceSinp(quaternion) ==
    quaternion.w.num * quaternion.y.num - quaternion.z.num * quaternion.x.num

\* C12: for a quaternion of numbers with s = 2 (w y - z x), the pitch is 90
\* degrees when s >= 1 and -90 degrees when s <= -1, the boundary included;
\* otherwise it is asin(s) in degrees (0 for s = 0, 30 for s = 0.5, -30 for
\* s = -0.5); it lies in [-90, 90].
C12_PitchClamped ==
    (Converted /\ lastEvent.quaternion \in NumericQuaternions) =>
      LET twice == TwiceSinp(lastEvent.quaternion)
          pitch == lastEvent.result.some.pitch
      IN /\ twice >= 2 => pitch = Num(90000)
         /\ twice <= -2 => pitch = Num(-90000)
         /\ twice = 0 => pitch = Num(0)
         /\ twice = 1 => pitch = Num(30000)
         /\ twice = -1 => pitch = Num(-30000)
         /\ DOMAIN pitch = {"num"}
         /\ pitch.num \in -90000..90000

\* the converter was applied to a quaternion with s = 1 exactly and to one with
\* s beyond -1, and returned a pitch of 90 and of -90 degrees
C12_Witness ==
    /\ Converted
    /\ \/ /\ lastEvent.quaternion = Quaternion(1, 1, -1, 1)
          /\ lastEvent.result.some.pitch = Num(90000)
       \/ /\ lastEvent.quaternion = Quaternion(0, -2, 0, 2)
          /\ lastEvent.result.some.pitch = Num(-90000)

\* ------------------------------------------------------------ SpecSettings: the reducers

\* the SourceConfigs
TopicConfigs ==
    [enabled : BOOLEAN, showRoll : BOOLEAN, showPitch : BOOLEAN, showYaw : BOOLEAN]

\* the source mappings of at most two of the topics, in either insertion order
TopicMaps ==
    {<< >>}
    \cup {<< << name, config >> >> : name \in TopicNames, config \in TopicConfigs}
    \cup {pair \in (TopicNames \X TopicConfigs) \X (TopicNames \X TopicConfigs) :
             pair[1][1] # pair[2][1]}

PanelStates ==
    [topics : TopicMaps,
     displaySettings : [rollEnabled : BOOLEAN, pitchEnabled : BOOLEAN, yawEnabled : BOOLEAN]]

\* the names a reducer is called with: the topics, and one the state never has
ReducerNames == TopicNames \cup {"/tf"}

\* the panel is mounted with a persisted PanelState
InitSettings ==
    /\ \E savedState \in PanelStates : Mounted(savedState)
    /\ lastEvent = [type |-> "mount"]

\* a call of a reducer on the PanelState: the state variable is unchanged
Called(call) ==
    /\ lastEvent' = call
    /\ UNCHANGED << orientations, topics, messages, renderDone, state, pendingOrientations,
                    pendingTopics, pendingMessages, pendingRenderDone, pendingState,
                    indicators, owed, subscription, saved, settingsEditor, styleSheets,
                    mounted >>

CallUpdateTopicStatus ==
    \E name \in ReducerNames, enabled \in BOOLEAN :
        Called([type |-> "updateTopicStatus", topicName |-> name, enabled |-> enabled,
                result |-> updateTopicStatus(state, name, enabled)])

CallUpdateTopicComponentStatus ==
    \E name \in ReducerNames, component \in {"showRoll", "showPitch", "showYaw"},
       enabled \in BOOLEAN :
        Called([type |-> "updateTopicComponentStatus", topicName |-> name,
                component |-> component, enabled |-> enabled,
                result |-> updateTopicComponentStatus(state, name, component, enabled)])

CallUpdateDisplaySetting ==
    \E component \in {"rollEnabled", "pitchEnabled", "yawEnabled"}, enabled \in BOOLEAN :
        Called([type |-> "updateDisplaySetting", component |-> component,
                enabled |-> enabled,
                result |-> updateDisplaySetting(state, component, enabled)])

CallGetEnabledTopics ==
    Called([type |-> "getEnabledTopics", result |-> getEnabledTopics(state)])

NextSettings ==
    \/ CallUpdateTopicStatus
    \/ CallUpdateTopicComponentStatus
    \/ CallUpdateDisplaySetting
    \/ CallGetEnabledTopics

SpecSettings == InitSettings /\ [][NextSettings]_vars

\* the show-flags of a SourceConfig
ShowFlags(config) ==
    [showRoll |-> config.showRoll, showPitch |-> config.showPitch, showYaw |-> config.showYaw]

\* every source but the named one has the same SourceConfig, or none, in both
OthersUnchanged(before, after, name) ==
    \A other \in (KeySet(before) \cup KeySet(after)) \ {name} :
       Entry(after, other) = Entry(before, other)

\* ------------------------------------------------------------ C13

\* C13: updateTopicStatus(state, name, e) returns a state in which name has
\* enabled = e and the show-flags it had, all three true if it had no
\* SourceConfig; the SourceConfig of every other source and the display
\* settings are those of the input. Disabling and then enabling a source
\* leaves its show-flags as they were.
C13_UpsertKeepsShowFlags ==
    /\ lastEvent.type = "updateTopicStatus" =>
         LET name == lastEvent.topicName
             result == lastEvent.result
         IN /\ MapHas(result.topics, name)
            /\ MapGet(result.topics, name).enabled = lastEvent.enabled
            /\ ShowFlags(MapGet(result.topics, name)) =
                 IF MapHas(state.topics, name)
                 THEN ShowFlags(MapGet(state.topics, name))
                 ELSE [showRoll |-> TRUE, showPitch |-> TRUE, showYaw |-> TRUE]
            /\ OthersUnchanged(state.topics, result.topics, name)
            /\ result.displaySettings = state.displaySettings
    /\ \A name \in KeySet(state.topics) :
          ShowFlags(MapGet(updateTopicStatus(updateTopicStatus(state, name, FALSE),
                                             name, TRUE).topics, name))
            = ShowFlags(MapGet(state.topics, name))

\* a source with two show-flags cleared was disabled next to another source
C13_Witness ==
    /\ lastEvent.type = "updateTopicStatus"
    /\ lastEvent.topicName = "/imu"
    /\ ~lastEvent.enabled
    /\ Entry(state.topics, "/imu")
         = Some([enabled |-> TRUE, showRoll |-> FALSE, showPitch |-> TRUE, showYaw |-> FALSE])
    /\ Entry(lastEvent.result.topics, "/imu")
         = Some([enabled |-> FALSE, showRoll |-> FALSE, showPitch |-> TRUE, showYaw |-> FALSE])
    /\ MapHas(state.topics, "/odom")

\* ------------------------------------------------------------ C14

\* C14: updateTopicComponentStatus(state, name, flag, v) returns a state equal
\* to the input when name has no SourceConfig; otherwise the result differs
\* from the input at most in that show-flag of name, which is v.
C14_OneShowFlag ==
    lastEvent.type = "updateTopicComponentStatus" =>
      LET name == lastEvent.topicName
          result == lastEvent.result
      IN IF ~MapHas(state.topics, name)
         THEN result = state
         ELSE /\ MapHas(result.topics, name)
              /\ MapGet(result.topics, name)[lastEvent.component] = lastEvent.enabled
              /\ \A flag \in {"enabled", "showRoll", "showPitch", "showYaw"}
                           \ {lastEvent.component} :
                    MapGet(result.topics, name)[flag] = MapGet(state.topics, name)[flag]
              /\ OthersUnchanged(state.topics, result.topics, name)
              /\ MapKeys(result.topics) = MapKeys(state.topics)
              /\ result.displaySettings = state.displaySettings

\* the pitch show-flag of a disabled source was cleared, or a show-flag of a
\* source without SourceConfig was set on a state that has other sources
C14_Witness ==
    /\ lastEvent.type = "updateTopicComponentStatus"
    /\ \/ /\ lastEvent.topicName = "/odom"
          /\ lastEvent.component = "showPitch"
          /\ Entry(state.topics, "/odom") = Some([enabled |-> FALSE, showRoll |-> TRUE,
                                                   showPitch |-> TRUE, showYaw |-> TRUE])
          /\ Entry(lastEvent.result.topics, "/odom")
               = Some([enabled |-> FALSE, showRoll |-> TRUE,
                       showPitch |-> FALSE, showYaw |-> TRUE])
       \/ /\ lastEvent.topicName = "/tf"
          /\ Len(state.topics) = 2
          /\ lastEvent.result = state

\* ------------------------------------------------------------ C15

\* C15: updateDisplaySetting(state, flag, v) returns a state whose named
\* display flag is v, whose other two display flags are those of the input,
\* and whose source mapping is that of the input.
C15_OneDisplayFlag ==
    lastEvent.type = "updateDisplaySetting" =>
      LET result == lastEvent.result
      IN /\ result.displaySettings[lastEvent.component] = lastEvent.enabled
         /\ \A flag \in {"rollEnabled", "pitchEnabled", "yawEnabled"} \ {lastEvent.component} :
               result.displaySettings[flag] = state.displaySettings[flag]
         /\ result.topics = state.topics

\* the yaw display was switched on while the roll display is off, on a state
\* with two sources
C15_Witness ==
    /\ lastEvent.type = "updateDisplaySetting"
    /\ lastEvent.component = "yawEnabled"
    /\ lastEvent.enabled
    /\ state.displaySettings = [rollEnabled |-> FALSE, pitchEnabled |-> TRUE,
                                yawEnabled |-> FALSE]
    /\ lastEvent.result.displaySettings = [rollEnabled |-> FALSE, pitchEnabled |-> TRUE,
                                           yawEnabled |-> TRUE]
    /\ Len(state.topics) = 2

\* ------------------------------------------------------------ C16

\* C16: getEnabledTopics(state) holds each source whose enabled flag is true
\* once and no other name, in the order of the source mapping.
C16_EnabledNamesInOrder ==
    lastEvent.type = "getEnabledTopics" =>
      LET result == lastEvent.result
          position(name) == CHOOSE i \in 1..Len(state.topics) : state.topics[i][1] = name
      IN /\ {result[i] : i \in 1..Len(result)}
              = {name \in KeySet(state.topics) : MapGet(state.topics, name).enabled}
         /\ \A i, j \in 1..Len(result) : i < j => position(result[i]) < position(result[j])

\* /odom was inserted before /imu and both are enabled; or only the second
\* source of the mapping is enabled
C16_Witness ==
    /\ lastEvent.type = "getEnabledTopics"
    /\ \/ /\ MapKeys(state.topics) = << "/odom", "/imu" >>
          /\ lastEvent.result = << "/odom", "/imu" >>
       \/ /\ Len(state.topics) = 2
          /\ ~state.topics[1][2].enabled
          /\ lastEvent.result = << state.topics[2][1] >>

\* ------------------------------------------------------------ SpecEdits: every kind of edit

\* the toggles of both topics, the roll display checkbox cleared, and the yaw
\* show-flag checkbox of /imu cleared
EditActions ==
    ToggleActions(TopicNames)
    \cup {UpdateAction(<< "general", "rollEnabled" >>, Bool(FALSE))}
    \cup {UpdateAction(<< "topics", "/imu", "topicSettings", "showYaw" >>, Bool(FALSE))}

\* the host delivers the next frame once the panel has called the completion
\* callback of the last one
DeliverEdits ==
    /\ owed = 0
    /\ \E renderState \in RenderStates({DisplayFrame}, Catalog) :
          onRender(renderState, FreshDone)

EditAny ==
    \E action \in EditActions, eager \in BOOLEAN : actionHandler(action, eager)

NextEdits == DeliverEdits \/ EditAny \/ Render

SpecEdits == Init /\ [][NextEdits]_vars

\* ------------------------------------------------------------ C17

\* C17: no step removes a SourceConfig: a name that is a key of the source
\* mapping of the PanelState is a key of it after every step.
C17_ConfigsNeverRemoved ==
    [][KeySet(state.topics) \subseteq KeySet(state'.topics)]_vars

\* a source that has a SourceConfig and a cached Orientation was disabled, the
\* disable is processed, and the source still has its SourceConfig
C17_Witness ==
    /\ Disabled
    /\ Idle
    /\ lastEvent.before # None
    /\ MapHas(lastEvent.before.some.orientations, lastEvent.update.topic)
    /\ MapHas(state.topics, lastEvent.update.topic)
    /\ ~MapGet(state.topics, lastEvent.update.topic).enabled
    /\ Len(state.topics) = 2

\* ------------------------------------------------------------ C20

\* the setState updater of the last settings action returned a new PanelState
ChangedState ==
    /\ lastEvent.type = "action"
    /\ lastEvent.update # None
    /\ lastEvent.update.kind = "componentStatus" => MapHas(state.topics, lastEvent.update.topic)

\* C20: when no setState updater is left to run, the topics of the last
\* context.subscribe call are the enabled topics of the PanelState, in its
\* order; and after a settings action that changed the PanelState such a call
\* was made.
C20_SubscriptionIsEnabledList ==
    pendingState = << >> =>
      /\ subscription # None => subscription.some = getEnabledTopics(state)
      /\ ChangedState => subscription # None

\* the only enabled source, which had a cached Orientation, was disabled while
\* another source has a disabled SourceConfig; the disable is processed and the
\* last subscription is empty
C20_Witness ==
    /\ Disabled
    /\ pendingState = << >>
    /\ lastEvent.before # None
    /\ MapHas(lastEvent.before.some.orientations, lastEvent.update.topic)
    /\ Len(state.topics) = 2
    /\ getEnabledTopics(state) = << >>
    /\ subscription = Some(<< >>)

\* ------------------------------------------------------------ SpecTree: the settings tree

\* the topics of the host that may hold an orientation
CandidateTopics ==
    {[name |-> "/imu", schemaName |-> "sensor_msgs/Imu"],
     [name |-> "/odom", schemaName |-> "nav_msgs/Odometry"]}

\* the candidate lists of at most maxLength topics
CandidateLists(maxLength) == UNION { [1..n -> CandidateTopics] : n \in 0..maxLength }

\* the call buildSettingsTree(state, orientationTopics)
CallBuildSettingsTree ==
    \E candidates \in CandidateLists(MaxCandidates) :
        Called([type |-> "buildSettingsTree", orientationTopics |-> candidates,
                result |-> buildSettingsTree(state, candidates)])

NextTree == CallBuildSettingsTree

SpecTree == InitSettings /\ [][NextTree]_vars

\* ------------------------------------------------------------ C18

\* C18: buildSettingsTree(state, candidates) has one node for each candidate
\* name and no other; the visible flag of a node is the enabled flag of the
\* source, false for a source without SourceConfig; a node has the showRoll,
\* showPitch and showYaw fields, holding the show-flags of the source, exactly
\* when the source is enabled; and the general section has the three display
\* flags of the state.
C18_TreeMirrorsState ==
    lastEvent.type = "buildSettingsTree" =>
      LET tree == lastEvent.result
          candidates == lastEvent.orientationTopics
          names == {candidates[i].name : i \in 1..Len(candidates)}
          nodes == tree.topics.children
      IN /\ KeySet(nodes) = names
         /\ Len(nodes) = Cardinality(names)
         /\ \A name \in names :
               LET node == MapGet(nodes, name)
                   enabled == MapHas(state.topics, name) /\ MapGet(state.topics, name).enabled
               IN /\ node.visible = Bool(enabled)
                  /\ node.children # Undefined <=> enabled
                  /\ enabled =>
                       /\ DOMAIN node.children.topicSettings.fields
                            = {"showRoll", "showPitch", "showYaw"}
                       /\ \A flag \in {"showRoll", "showPitch", "showYaw"} :
                             node.children.topicSettings.fields[flag].value
                               = Bool(MapGet(state.topics, name)[flag])
         /\ DOMAIN tree.general.fields = {"rollEnabled", "pitchEnabled", "yawEnabled"}
         /\ \A flag \in {"rollEnabled", "pitchEnabled", "yawEnabled"} :
               tree.general.fields[flag].value = Bool(state.displaySettings[flag])

\* the tree was built for an enabled source with its roll show-flag cleared, a
\* disabled source, and the roll display off
C18_Witness ==
    /\ lastEvent.type = "buildSettingsTree"
    /\ Len(lastEvent.orientationTopics) = 2
    /\ lastEvent.orientationTopics[1].name = "/imu"
    /\ lastEvent.orientationTopics[2].name = "/odom"
    /\ Entry(state.topics, "/imu")
         = Some([enabled |-> TRUE, showRoll |-> FALSE, showPitch |-> TRUE, showYaw |-> TRUE])
    /\ MapHas(state.topics, "/odom")
    /\ ~MapGet(state.topics, "/odom").enabled
    /\ ~state.displaySettings.rollEnabled
    /\ MapGet(lastEvent.result.topics.children, "/imu").children.topicSettings.fields.showRoll.value
         = Bool(FALSE)
    /\ MapGet(lastEvent.result.topics.children, "/odom").children = Undefined
    /\ lastEvent.result.general.fields.rollEnabled.value = Bool(FALSE)

\* ------------------------------------------------------------ SpecRestore: partial persisted states

DisplayFlags == {"rollEnabled", "pitchEnabled", "yawEnabled"}

ConfigFlags == {"enabled", "showRoll", "showPitch", "showYaw"}

\* the objects holding any subset of the given boolean keys
PartialFlags(keys) == UNION { [present -> BOOLEAN] : present \in SUBSET keys }

\* persisted topics: none, or /imu with any subset of the keys of its configuration
PartialTopicMaps ==
    {EmptyMap} \cup { << << "/imu", config >> >> : config \in PartialFlags(ConfigFlags) }

\* context.initialState as Partial<PanelState>: any subset of the top-level keys
PartialStates ==
    {<< >>}
      \cup { [topics |-> savedTopics] : savedTopics \in PartialTopicMaps }
      \cup { [displaySettings |-> savedSettings] : savedSettings \in PartialFlags(DisplayFlags) }
      \cup { [topics |-> savedTopics, displaySettings |-> savedSettings] :
               savedTopics \in PartialTopicMaps, savedSettings \in PartialFlags(DisplayFlags) }

InitRestore ==
    /\ \E savedState \in PartialStates : Mounted(savedState)
    /\ lastEvent = [type |-> "mount"]

\* the settings effect of a render builds the tree of the restored state
NextRestore == CallBuildSettingsTree

SpecRestore == InitRestore /\ [][NextRestore]_vars

\* ------------------------------------------------------------ C19

\* C19: whatever subset of the top-level keys, of the keys of displaySettings
\* and of the keys of a source configuration the persisted state holds, the
\* state of the panel after initialization has the three display flags and the
\* four flags of every restored source, each a boolean, and the general fields
\* of the settings tree built from it hold booleans.
C19_RestoredFlagsDefined ==
    /\ DOMAIN state.displaySettings = DisplayFlags
    /\ \A i \in 1..Len(state.topics) : DOMAIN state.topics[i][2] = ConfigFlags
    /\ lastEvent.type = "buildSettingsTree" =>
         \A flag \in DisplayFlags :
            lastEvent.result.general.fields[flag].value \in {Bool(TRUE), Bool(FALSE)}

\* ------------------------------------------------------------ SpecTeardown: the panel until it is unmounted

\* the host calls into the panel only while it is mounted
DeliverTeardown ==
    /\ mounted
    /\ \E renderState \in RenderStates(Frames(Events({"/imu"}, {ImuMessage(QuarterTurns)}),
                                              MaxFrame), Catalog) :
          onRender(renderState, FreshDone)

EditTeardown ==
    /\ mounted
    /\ \E action \in ToggleActions({"/imu"}), eager \in BOOLEAN :
          actionHandler(action, eager)

NextTeardown == DeliverTeardown \/ EditTeardown \/ Render \/ Unmount

SpecTeardown == Init /\ [][NextTeardown]_vars

\* ------------------------------------------------------------ C21

\* C21: once the panel is torn down, whatever edits and deliveries came before,
\* the last subscription request the host received is the empty list and no
\* style element of the panel is left in the document.
C21_TeardownReleases ==
    ~mounted => subscription = Some(<< >>) /\ styleSheets = 0

\* the panel was torn down while /imu was enabled and cached, with a delivery
\* and an edit still queued
C21_Witness ==
    /\ ~mounted
    /\ lastEvent.type = "unmount"
    /\ TopicEnabled(state.topics, "/imu")
    /\ MapHas(orientations, "/imu")
    /\ pendingState # << >>
    /\ pendingMessages # None

\* ------------------------------------------------------------ C22

\* C22: the state last handed to context.saveState is the whole current
\* PanelState: at mount and after every render pass that changed the state.
C22_SavedIsCurrent ==
    saved = Some(state)

\* a display edit and a toggle were processed and the state that was saved
\* holds both
C22_Witness ==
    /\ Idle
    /\ ~state.displaySettings.rollEnabled
    /\ TopicEnabled(state.topics, "/imu")
    /\ MapHas(state.topics, "/odom")
    /\ ~TopicEnabled(state.topics, "/odom")
    /\ saved = Some(state)

\* ------------------------------------------------------------ SpecCatalog: the topics of the host

\* topics a host may list: two with a schema of ORIENTATION_TYPES, one with a
\* schema the list holds only in a comment
HostTopics ==
    {[name |-> "/imu", schemaName |-> "sensor_msgs/Imu"],
     [name |-> "/odom", schemaName |-> "nav_msgs/Odometry"],
     [name |-> "/pose", schemaName |-> "geometry_msgs/PoseStamped"]}

\* renderState.topics: undefined, or at most maxLength topics of different names
Catalogs(maxLength) ==
    {Undefined} \cup
    { Array(list) : list \in
        { l \in UNION { [1..n -> HostTopics] : n \in 0..maxLength } :
            \A i, j \in 1..Len(l) : l[i].name = l[j].name => i = j } }

DeliverCatalog ==
    \E catalog \in Catalogs(MaxCatalog) :
        onRender([topics |-> catalog], FreshDone)

EditCatalog ==
    \E action \in ToggleActions({"/pose"}) :
        actionHandler(action, FALSE)

NextCatalog == DeliverCatalog \/ EditCatalog \/ Render

SpecCatalog == Init /\ [][NextCatalog]_vars

\* ------------------------------------------------------------ C23

\* the names of the topics of the catalog the panel holds whose schema is
\* sensor_msgs/Imu or nav_msgs/Odometry, in the order of the catalog
AllowedNames ==
    IF topics = Undefined THEN << >>
    ELSE MapKeys(SelectSeq([i \in 1..Len(topics.items) |->
                               << topics.items[i].name, topics.items[i].schemaName >>],
                           LAMBDA e : e[2] \in {"sensor_msgs/Imu", "nav_msgs/Odometry"}))

\* C23: the topic nodes of the settings editor are the topics of the catalog
\* whose schema is sensor_msgs/Imu or nav_msgs/Odometry, in the order of the
\* catalog; a topic of another schema has no node, enabled or not.
C23_CandidatesAreAllowed ==
    MapKeys(settingsEditor.topics.children) = AllowedNames

\* the catalog lists /pose and then /odom, /pose is enabled, and the editor
\* offers /odom alone
C23_Witness ==
    /\ topics # Undefined
    /\ Len(topics.items) = 2
    /\ topics.items[1].name = "/pose"
    /\ topics.items[2].name = "/odom"
    /\ TopicEnabled(state.topics, "/pose")
    /\ MapKeys(settingsEditor.topics.children) = << "/odom" >>

\* ------------------------------------------------------------ C24

\* C24: every indicator in a dial has the color class of the position of its
\* source in the Orientation cache, which is the color class of the row of the
\* source in the numeric list.
C24_DialColorIsListColor ==
    \A axis \in {"roll", "pitch", "yaw"} :
       \A k \in 1..Len(indicators[axis]) :
          LET indicator == indicators[axis][k]
              rows == TopicValueRows(orientations, state)
          IN \A index \in 1..Len(rows) :
                rows[index].topic = indicator.topic =>
                   /\ indicator.colorClass = ArrayAt(CONFIG.colorClasses, index - 1)
                   /\ indicator.colorClass = rows[index].colorClass

\* ------------------------------------------------------------ SpecStale: deliveries that do not wait for the panel

\* /imu publishes two different orientations, /odom one pose
StaleEvents ==
    Events({"/imu"}, {ImuMessage(QuarterTurns), ImuMessage(HalfTurnYaw)})
    \cup Events({"/odom"}, {OdometryMessage(QuarterTurns)})

\* the host delivers a frame whether or not the panel has rendered the last one
DeliverStale ==
    \E renderState \in RenderStates(Frames(StaleEvents, MaxFrame), Catalog) :
        onRender(renderState, FreshDone)

NextStale == DeliverStale \/ Render

SpecStale == InitBatch /\ [][NextStale]_vars

\* ------------------------------------------------------------ C25

\* the message cache the committed one becomes once the queued deliveries are
\* rendered
QueuedMessages == IF pendingMessages # None THEN pendingMessages.some ELSE messages

\* C25: with both sources enabled and no edit at all, a delivery leaves to every
\* source that has no message in its frame the message the deliveries so far
\* left it, whether or not the panel has rendered them: the source's last
\* message is neither removed nor replaced by an older one.
C25_BatchKeepsOtherSources ==
    [][(lastEvent'.type = "onRender" /\ owed' = owed + 1) =>
          \A t \in TopicNames \ FrameTopics(lastEvent'.frame) :
             Entry(QueuedMessages', t) = Entry(QueuedMessages, t)]_vars

====
